---------------------------- MODULE Spec2Model ----------------------------
(***************************************************************************)
(* The constant-product pool of src/src/main.rs: the Contract struct, its  *)
(* liquidity and swap methods, the pricing functions and the token         *)
(* receiver.  Balances are u128 in the program; here they are the integers *)
(* 0..MaxBalance, and every native operation keeps that width.             *)
(*                                                                         *)
(* A native u128 operation whose exact result leaves 0..MaxBalance panics  *)
(* when the crate is built with overflow checks and wraps modulo           *)
(* MaxBalance+1 when it is not; the build decides, so overflow_checks is   *)
(* chosen once, at construction.  U256 values are the unbounded integers   *)
(* (their own overflow needs a product of 2^256 and aborts the call);      *)
(* U256 division by zero and as_u128() of a value that does not fit panic  *)
(* in every build.  A panic aborts the call: nothing it did is kept.       *)
(***************************************************************************)
EXTENDS Integers, Sequences, FiniteSets, TLC

VARIABLES token_account_id, fee, shares, shares_total_supply, near_amount, lp_token_amount, overflow_checks, last, transfers, query

contract == <<token_account_id, fee, shares, shares_total_supply, near_amount, lp_token_amount>>

vars == <<token_account_id, fee, shares, shares_total_supply, near_amount, lp_token_amount, overflow_checks, last, transfers, query>>

(* ------------------------------ bounds -------------------------------- *)

\* The largest balance: stands for u128::MAX.
MaxBalance == 3

Modulus == MaxBalance + 1

Balance == 0..MaxBalance

\* Accounts that may hold shares, and the configured token contract.
Providers == {"alice", "bob"}

TokenAccount == "token"

Callers == Providers \cup {TokenAccount}

\* The fee the pool is constructed with: the one of the tests.
PoolFees == {3}

\* Fees the pricing functions are examined under.
PriceFees == {0, 3, 500, 999}

Msgs == {"liquidity", "swap"}

\* The <<min_near_amount, min_token_amount>> a withdrawal is examined
\* with: each minimum alone, and both together.
Minimums == {<<m, 0>> : m \in Balance} \cup {<<0, m>> : m \in Balance} \cup {<<m, m>> : m \in Balance}

\* The minimums the withdrawals of a behaviour are called with (none, one
\* that no payout reaches on either side, and 1 on both) and those its
\* swaps are called with: a minimum decides whether the call fails, and
\* nothing else.
CalledMinimums == {<<0, 0>>, <<MaxBalance, 0>>, <<0, MaxBalance>>, <<1, 1>>}

CalledSwapMinimums == {0, 1, MaxBalance}

\* The <<predecessor, msg, attached deposit>> a token notification arrives
\* with: any deposit with the deposit memo from the token contract, and
\* one of each other kind.
Notifications == {<<TokenAccount, "liquidity", d>> : d \in Balance} \cup {<<TokenAccount, "swap", 0>>, <<"alice", "liquidity", 1>>, <<"bob", "swap", 0>>}

(* --------------------------- program constants ------------------------ *)

FEE_DIVISOR == 1000

\* A LookupMap key with no entry, and a call that returns no number.
Absent == -1

NoVal == -1

(* --------------------------- native arithmetic ------------------------ *)

\* The exact result does not fit the native width.
Overflows(v) == v < 0 \/ v > MaxBalance

\* The call panics on this native result (a build with overflow checks).
Traps(v) == overflow_checks /\ Overflows(v)

\* The value a native operation stores when it does not panic.
Native(v) == v % Modulus

(* ------------------------------- ledger ------------------------------- *)

\* LookupMap::get(..).unwrap_or(0)
BalanceOf(c, account_id) == IF account_id \in DOMAIN c /\ c[account_id] # Absent THEN c[account_id] ELSE 0

Entries(c) == {a \in DOMAIN c : c[a] # Absent}

RECURSIVE SumOver(_, _)
SumOver(c, S) == IF S = {} THEN 0 ELSE LET a == CHOOSE x \in S : TRUE IN c[a] + SumOver(c, S \ {a})

\* The sum of all share balances of the ledger.
SumShares(c) == SumOver(c, Entries(c))

\* add_to_collection: insert prev_amount + amount (always inserts).
add_to_collection(c, account_id, amount) == [c EXCEPT ![account_id] = Native(BalanceOf(c, account_id) + amount)]

(* ------------------------------ outcomes ------------------------------ *)

\* What a call leaves behind: the error (or "OK"), the fields of the
\* contract, the returned number, the shares minted and the transfer
\* requests issued.
Outcome(e, c, total, near, token, r, m, t) == [err |-> e, shares |-> c, total |-> total, near |-> near, token |-> token, ret |-> r, minted |-> m, transfers |-> t]

\* assert!/panic!: the call aborts and the contract is as before the call.
Fail(e) == Outcome(e, shares, shares_total_supply, near_amount, lp_token_amount, NoVal, NoVal, <<>>)

\* A request handed to the settlement layer, with the ledger and the pool
\* fields as they are when it is issued.
Transfer(kind, to, amount, c, total, near, token) == [kind |-> kind, to |-> to, amount |-> amount, at |-> <<c, total, near, token>>]


(* ------------------------------ pricing ------------------------------- *)

Price(e, r) == [err |-> e, ret |-> r]

\* get_input_price, with self.fee as first argument.  The numerator and the
\* product with FEE_DIVISOR are U256; input_reserve + input_amount is a
\* native u128 sum.
get_input_price(self_fee, input_amount, input_reserve, output_reserve) ==
    LET input_amount_with_fee == input_amount * (FEE_DIVISOR - self_fee)
        sum == input_reserve + input_amount
        denominator == Native(sum) * FEE_DIVISOR
    IN  IF ~(input_reserve > 0 /\ output_reserve > 0) THEN Price("ERR_EMPTY_RESERVE", NoVal)
        ELSE IF Traps(sum) THEN Price("PANIC_OVERFLOW", NoVal)
        ELSE IF denominator = 0 THEN Price("PANIC_DIV_ZERO", NoVal)
        ELSE IF Overflows((input_amount_with_fee * output_reserve) \div denominator) THEN Price("PANIC_CAST", NoVal)
        ELSE Price("OK", (input_amount_with_fee * output_reserve) \div denominator)

\* get_output_price, with self.fee as first argument.  output_reserve -
\* output_amount is a native u128 difference.
get_output_price(self_fee, output_amount, input_reserve, output_reserve) ==
    LET diff == output_reserve - output_amount
        denominator == Native(diff) * (FEE_DIVISOR - self_fee)
        numerator == input_reserve * output_amount * FEE_DIVISOR
    IN  IF ~(input_reserve > 0 /\ output_reserve > 0) THEN Price("ERR_EMPTY_RESERVE", NoVal)
        ELSE IF Traps(diff) THEN Price("PANIC_OVERFLOW", NoVal)
        ELSE IF denominator = 0 THEN Price("PANIC_DIV_ZERO", NoVal)
        ELSE IF Overflows(numerator \div denominator) THEN Price("PANIC_CAST", NoVal)
        ELSE Price("OK", numerator \div denominator)

(* ----------------------------- liquidity ------------------------------ *)

\* near_amount * self.lp_token_amount / self.near_amount, in u128.
expected_token_amount(deposit) == Native(deposit * lp_token_amount) \div near_amount

\* near_amount * self.shares_total_supply / self.near_amount, in u128.
liquidity_minted(deposit) == Native(deposit * shares_total_supply) \div near_amount

\* The branch of add_liquidity for a pool that has shares.
add_to_pool(sender_id, deposit, token_amount) ==
    IF Traps(deposit * lp_token_amount) THEN Fail("PANIC_OVERFLOW")
    ELSE IF near_amount = 0 THEN Fail("PANIC_DIV_ZERO")
    ELSE IF ~(expected_token_amount(deposit) <= token_amount) THEN Fail("ERR_NOT_ENOUGH_TOKEN")
    ELSE IF Traps(deposit * shares_total_supply) THEN Fail("PANIC_OVERFLOW")
    ELSE IF Traps(BalanceOf(shares, sender_id) + liquidity_minted(deposit)) THEN Fail("PANIC_OVERFLOW")
    ELSE IF Traps(shares_total_supply + liquidity_minted(deposit)) THEN Fail("PANIC_OVERFLOW")
    ELSE IF Traps(near_amount + deposit) THEN Fail("PANIC_OVERFLOW")
    ELSE IF Traps(lp_token_amount + expected_token_amount(deposit)) THEN Fail("PANIC_OVERFLOW")
    ELSE Outcome("OK", add_to_collection(shares, sender_id, liquidity_minted(deposit)), Native(shares_total_supply + liquidity_minted(deposit)), Native(near_amount + deposit), Native(lp_token_amount + expected_token_amount(deposit)), expected_token_amount(deposit), liquidity_minted(deposit), <<>>)

\* The branch of add_liquidity for a pool without shares.
first_deposit(sender_id, deposit, token_amount) ==
    IF Traps(BalanceOf(shares, sender_id) + deposit) THEN Fail("PANIC_OVERFLOW")
    ELSE Outcome("OK", add_to_collection(shares, sender_id, deposit), deposit, deposit, token_amount, token_amount, deposit, <<>>)

\* add_liquidity with the deposit check reporting its error only after the
\* branch has written the state.
add_liquidity_late_check(sender_id, deposit, token_amount) ==
    LET o == IF shares_total_supply > 0 THEN add_to_pool(sender_id, deposit, token_amount) ELSE first_deposit(sender_id, deposit, token_amount)
    IN  IF ~(deposit > 0) THEN [o EXCEPT !.err = "ERR_EMPTY_ATTACHED_DEPOSIT"] ELSE o

\* add_liquidity; deposit is env::attached_deposit().
add_liquidity(sender_id, deposit, token_amount) ==
    IF ~(deposit > 0) THEN Fail("ERR_EMPTY_ATTACHED_DEPOSIT")
    ELSE IF shares_total_supply > 0 THEN add_to_pool(sender_id, deposit, token_amount)
    ELSE first_deposit(sender_id, deposit, token_amount)

\* The payouts of remove_liquidity, in U256 before as_u128().
near_payout(shares_amount) == (shares_amount * near_amount) \div shares_total_supply

token_payout(shares_amount) == (shares_amount * lp_token_amount) \div shares_total_supply

\* The ledger after the caller's debit: the entry is removed when the
\* whole balance is burnt.
debit(c, account_id, shares_amount) ==
    IF BalanceOf(c, account_id) = shares_amount THEN [a \in DOMAIN c |-> IF a = account_id THEN Absent ELSE c[a]]
    ELSE [a \in DOMAIN c |-> IF a = account_id THEN BalanceOf(c, account_id) - shares_amount ELSE c[a]]

\* The mutation and the two transfer requests of remove_liquidity.
withdraw(account_id, shares_amount) ==
    LET total == Native(shares_total_supply - shares_amount)
        near == Native(near_amount - near_payout(shares_amount))
        token == Native(lp_token_amount - token_payout(shares_amount))
    IN  IF Traps(shares_total_supply - shares_amount) THEN Fail("PANIC_OVERFLOW")
        ELSE IF Traps(near_amount - near_payout(shares_amount)) THEN Fail("PANIC_OVERFLOW")
        ELSE IF Traps(lp_token_amount - token_payout(shares_amount)) THEN Fail("PANIC_OVERFLOW")
        ELSE Outcome("OK", debit(shares, account_id, shares_amount), total, near, token, NoVal, NoVal, <<Transfer("near", account_id, near_payout(shares_amount), debit(shares, account_id, shares_amount), total, near, token), Transfer("token", account_id, token_payout(shares_amount), debit(shares, account_id, shares_amount), total, near, token)>>)

\* remove_liquidity accepting a withdrawal when either payout reaches its
\* minimum.
remove_liquidity_either_min(account_id, shares_amount, min_near_amount, min_token_amount) ==
    IF ~(shares_amount > 0 /\ shares_total_supply > 0) THEN Fail("ERR_EMPTY_SHARES")
    ELSE IF Overflows(near_payout(shares_amount)) \/ Overflows(token_payout(shares_amount)) THEN Fail("PANIC_CAST")
    ELSE IF ~(near_payout(shares_amount) >= min_near_amount \/ token_payout(shares_amount) >= min_token_amount) THEN Fail("ERR_MIN_AMOUNT")
    ELSE IF ~(BalanceOf(shares, account_id) >= shares_amount) THEN Fail("ERR_NOT_ENOUGH_SHARES")
    ELSE withdraw(account_id, shares_amount)

\* remove_liquidity; account_id is env::predecessor_account_id().
remove_liquidity(account_id, shares_amount, min_near_amount, min_token_amount) ==
    IF ~(shares_amount > 0 /\ shares_total_supply > 0) THEN Fail("ERR_EMPTY_SHARES")
    ELSE IF Overflows(near_payout(shares_amount)) \/ Overflows(token_payout(shares_amount)) THEN Fail("PANIC_CAST")
    ELSE IF ~(near_payout(shares_amount) >= min_near_amount /\ token_payout(shares_amount) >= min_token_amount) THEN Fail("ERR_MIN_AMOUNT")
    ELSE IF ~(BalanceOf(shares, account_id) >= shares_amount) THEN Fail("ERR_NOT_ENOUGH_SHARES")
    ELSE withdraw(account_id, shares_amount)

(* -------------------------------- swaps ------------------------------- *)

\* swap_near_to_token; payed_amount is env::attached_deposit() and
\* account_id is env::predecessor_account_id().
swap_near_to_token(account_id, payed_amount, min_amount) ==
    LET price == get_input_price(fee, payed_amount, near_amount, lp_token_amount)
        tokens_bought == price.ret
        near == Native(near_amount + payed_amount)
        token == Native(lp_token_amount - tokens_bought)
    IN  IF price.err # "OK" THEN Fail(price.err)
        ELSE IF ~(tokens_bought >= min_amount) THEN Fail("ERR_MIN_TOKENS_BOUGHT")
        ELSE IF Traps(near_amount + payed_amount) THEN Fail("PANIC_OVERFLOW")
        ELSE IF Traps(lp_token_amount - tokens_bought) THEN Fail("PANIC_OVERFLOW")
        ELSE Outcome("OK", shares, shares_total_supply, near, token, tokens_bought, NoVal, <<Transfer("token", account_id, tokens_bought, shares, shares_total_supply, near, token)>>)

\* swap_token_to_near
swap_token_to_near(sender_id, token_amount, min_near_amount) ==
    LET price == get_input_price(fee, token_amount, lp_token_amount, near_amount)
        near_bought == price.ret
        near == Native(near_amount - near_bought)
        token == Native(lp_token_amount + token_amount)
    IN  IF price.err # "OK" THEN Fail(price.err)
        ELSE IF ~(near_bought >= min_near_amount) THEN Fail("ERR_MIN_NEAR_AMOUNT")
        ELSE IF Traps(near_amount - near_bought) THEN Fail("PANIC_OVERFLOW")
        ELSE IF Traps(lp_token_amount + token_amount) THEN Fail("PANIC_OVERFLOW")
        ELSE Outcome("OK", shares, shares_total_supply, near, token, NoVal, NoVal, <<Transfer("near", sender_id, near_bought, shares, shares_total_supply, near, token)>>)

(* --------------------------- token receiver --------------------------- *)

\* ft_on_transfer comparing the named sender, not the caller, with the
\* configured token.
ft_on_transfer_sender_check(predecessor, sender_id, amount, msg, deposit) ==
    IF sender_id = token_account_id THEN Fail("ERR_WRONG_TOKEN")
    ELSE IF msg = "liquidity" THEN add_liquidity(sender_id, deposit, amount)
    ELSE Outcome("OK", shares, shares_total_supply, near_amount, lp_token_amount, amount, NoVal, <<>>)

\* ft_on_transfer; predecessor is env::predecessor_account_id() and deposit
\* is env::attached_deposit(), which add_liquidity reads.
ft_on_transfer(predecessor, sender_id, amount, msg, deposit) ==
    IF predecessor # token_account_id THEN Fail("ERR_WRONG_TOKEN")
    ELSE IF msg = "liquidity" THEN add_liquidity(sender_id, deposit, amount)
    ELSE Outcome("OK", shares, shares_total_supply, near_amount, lp_token_amount, amount, NoVal, <<>>)

(* ------------------------------- calls -------------------------------- *)

\* The record of the latest call: its method, its error or "OK", the
\* account it acted for, what it returned, the deposit attached (a deposit)
\* or the shares burnt (a withdrawal), the shares it minted, and, for a
\* withdrawal that burns exactly the shares the same account was minted by
\* the call before it, that deposit's <<attached deposit, accepted tokens>>.
\* A call that failed did nothing for anybody.
Nobody == "nobody"

Call(op, who, o, amount, undone) == [op |-> op, err |-> o.err, who |-> IF o.err = "OK" THEN who ELSE Nobody, ret |-> o.ret, amount |-> IF o.err = "OK" THEN amount ELSE NoVal, minted |-> o.minted, undone |-> IF o.err = "OK" THEN undone ELSE <<>>]

NoQuery == [op |-> "none", amount |-> NoVal, input_reserve |-> NoVal, output_reserve |-> NoVal, err |-> "OK", ret |-> NoVal]

\* A call ends: its outcome becomes the contract's state.
Commit(op, who, o, amount, undone) ==
    /\ shares' = o.shares
    /\ shares_total_supply' = o.total
    /\ near_amount' = o.near
    /\ lp_token_amount' = o.token
    /\ transfers' = o.transfers
    /\ last' = Call(op, who, o, amount, undone)
    /\ UNCHANGED <<token_account_id, fee, overflow_checks, query>>

\* Contract::new, with state_exists() false and fee < FEE_DIVISOR.
new(token, f) ==
    /\ token_account_id = token
    /\ fee = f
    /\ shares = [a \in Providers |-> Absent]
    /\ shares_total_supply = 0
    /\ near_amount = 0
    /\ lp_token_amount = 0
    /\ transfers = <<>>
    /\ last = [op |-> "new", err |-> "OK", who |-> token, ret |-> NoVal, amount |-> NoVal, minted |-> NoVal, undone |-> <<>>]
    /\ query = NoQuery

Init ==
    /\ overflow_checks \in BOOLEAN
    /\ \E f \in PoolFees : f < FEE_DIVISOR /\ new(TokenAccount, f)

\* The deposit the latest call made for account_id, if it minted exactly
\* shares_amount shares.
DepositUndone(account_id, shares_amount) ==
    IF last.err = "OK" /\ last.minted # NoVal /\ last.who = account_id /\ last.minted = shares_amount THEN <<last.amount, last.ret>> ELSE <<>>

CallAddLiquidity ==
    \E sender_id \in Providers, deposit \in Balance, token_amount \in Balance :
        Commit("add_liquidity", sender_id, add_liquidity(sender_id, deposit, token_amount), deposit, <<>>)

CallRemoveLiquidity ==
    \E account_id \in Providers, shares_amount \in Balance, mins \in CalledMinimums :
        LET min_near_amount == mins[1]
            min_token_amount == mins[2]
        IN  Commit("remove_liquidity", account_id, remove_liquidity(account_id, shares_amount, min_near_amount, min_token_amount), shares_amount, DepositUndone(account_id, shares_amount))

CallSwapNearToToken ==
    \E account_id \in Providers, payed_amount \in Balance, min_amount \in CalledSwapMinimums :
        Commit("swap_near_to_token", account_id, swap_near_to_token(account_id, payed_amount, min_amount), NoVal, <<>>)

CallSwapTokenToNear ==
    \E sender_id \in Providers, token_amount \in Balance, min_near_amount \in CalledSwapMinimums :
        Commit("swap_token_to_near", sender_id, swap_token_to_near(sender_id, token_amount, min_near_amount), NoVal, <<>>)

CallFtOnTransfer ==
    \E env \in Notifications, sender_id \in Providers, amount \in Balance :
        LET predecessor == env[1]
            msg == env[2]
            deposit == env[3]
        IN  Commit("ft_on_transfer", sender_id, ft_on_transfer(predecessor, sender_id, amount, msg, deposit), deposit, <<>>)

Next ==
    \/ CallAddLiquidity
    \/ CallRemoveLiquidity
    \/ CallSwapNearToToken
    \/ CallSwapTokenToNear
    \/ CallFtOnTransfer

Spec == Init /\ [][Next]_vars

(* --------------------------- pricing queries -------------------------- *)

\* A contract constructed with any of PriceFees, on which the pricing
\* functions (public view methods taking the reserves as arguments) are
\* called with every amount and every pair of reserves.
InitPrice ==
    /\ overflow_checks \in BOOLEAN
    /\ \E f \in PriceFees : f < FEE_DIVISOR /\ new(TokenAccount, f)

Asked(op, amount, input_reserve, output_reserve, price) == [op |-> op, amount |-> amount, input_reserve |-> input_reserve, output_reserve |-> output_reserve, err |-> price.err, ret |-> price.ret]

QueryInputPrice ==
    \E input_amount \in Balance, input_reserve \in Balance, output_reserve \in Balance :
        /\ query' = Asked("get_input_price", input_amount, input_reserve, output_reserve, get_input_price(fee, input_amount, input_reserve, output_reserve))
        /\ UNCHANGED <<contract, overflow_checks, last, transfers>>

QueryOutputPrice ==
    \E output_amount \in Balance, input_reserve \in Balance, output_reserve \in Balance :
        /\ query' = Asked("get_output_price", output_amount, input_reserve, output_reserve, get_output_price(fee, output_amount, input_reserve, output_reserve))
        /\ UNCHANGED <<contract, overflow_checks, last, transfers>>

NextPrice ==
    \/ QueryInputPrice
    \/ QueryOutputPrice

SpecPrice == InitPrice /\ [][NextPrice]_vars

(* =============================== claims ============================== *)

NamedErrors == {"ERR_EMPTY_ATTACHED_DEPOSIT", "ERR_NOT_ENOUGH_TOKEN", "ERR_EMPTY_SHARES", "ERR_MIN_AMOUNT", "ERR_NOT_ENOUGH_SHARES", "ERR_EMPTY_RESERVE", "ERR_MIN_TOKENS_BOUGHT", "ERR_MIN_NEAR_AMOUNT", "ERR_WRONG_TOKEN"}

\* The pool holds shares and both reserves.
Funded == shares_total_supply > 0 /\ near_amount > 0 /\ lp_token_amount > 0

\* The outcome o of a call leaves the contract as it is and issues nothing.
Untouched(o) == o.shares = shares /\ o.total = shares_total_supply /\ o.near = near_amount /\ o.token = lp_token_amount /\ o.transfers = <<>>

\* C1 (ledger sum): in every reachable state the share balances of the
\* Share Ledger add up to shares_total_supply.
LedgerSum == SumShares(shares) = shares_total_supply

\* The ledger sum where the build checks native overflow.
LedgerSumChecked == overflow_checks => LedgerSum

\* C2 (co-nullity): in every reachable state shares_total_supply,
\* near_amount and lp_token_amount are all zero or all positive.
CoNullity == ((shares_total_supply = 0) <=> (near_amount = 0)) /\ ((near_amount = 0) <=> (lp_token_amount = 0))

\* C3 (no zero-balance entries): in every reachable state every account
\* present in the Share Ledger holds more than 0 shares.
NoZeroEntries == \A a \in Entries(shares) : shares[a] > 0

\* C4 (failure atomicity): a call that fails with a named error leaves
\* the reserves, the total supply and every ledger entry as they were
\* before the call, and issues no transfer request.
FailureAtomicity == [][last'.err \in NamedErrors => contract' = contract /\ transfers' = <<>>]_vars

\* C4 witness: a call has failed with a named error on a funded pool with
\* a ledger entry.
FailedOnFundedPool == last.err = "ERR_NOT_ENOUGH_TOKEN" /\ Funded /\ Entries(shares) # {}

\* A swap with a minimum above the quote fails with its below-minimum
\* error and changes nothing.
SwapSlippage ==
    /\ \A account_id \in Providers, payed_amount \in Balance, min_amount \in Balance :
        LET price == get_input_price(fee, payed_amount, near_amount, lp_token_amount)
            o == swap_near_to_token(account_id, payed_amount, min_amount)
        IN  price.err = "OK" /\ min_amount > price.ret => o.err = "ERR_MIN_TOKENS_BOUGHT" /\ Untouched(o)
    /\ \A sender_id \in Providers, token_amount \in Balance, min_near_amount \in Balance :
        LET price == get_input_price(fee, token_amount, lp_token_amount, near_amount)
            o == swap_token_to_near(sender_id, token_amount, min_near_amount)
        IN  price.err = "OK" /\ min_near_amount > price.ret => o.err = "ERR_MIN_NEAR_AMOUNT" /\ Untouched(o)

\* A withdrawal of a share amount from Burnt with a minimum above its
\* payout fails with ERR_MIN_AMOUNT and changes nothing.
WithdrawSlippage(Burnt) ==
    \A account_id \in Providers, shares_amount \in Burnt, min_near_amount \in Balance, min_token_amount \in Balance :
        LET o == remove_liquidity(account_id, shares_amount, min_near_amount, min_token_amount)
        IN  min_near_amount > near_payout(shares_amount) \/ min_token_amount > token_payout(shares_amount) => o.err = "ERR_MIN_AMOUNT" /\ Untouched(o)

\* C5 as stated (slippage enforcement): on a pool with shares, a swap
\* whose minimum is above get_input_price and a withdrawal, of any share
\* amount, one of whose minimums is above the proportional payout fail
\* with the below-minimum error and change nothing.
SlippageEnforcedAnyShares == shares_total_supply > 0 => SwapSlippage /\ WithdrawSlippage(Balance)

\* C5 as amended: the same, for a withdrawal of a share amount in
\* 1..shares_total_supply.
SlippageEnforced == shares_total_supply > 0 => SwapSlippage /\ WithdrawSlippage(1..shares_total_supply)

\* C5 witness: a withdrawal from a funded pool has failed with
\* ERR_MIN_AMOUNT.
WithdrawalBelowMinimum == last.op = "remove_liquidity" /\ last.err = "ERR_MIN_AMOUNT" /\ Funded

\* C6 (round-trip bound): when a provider's successful add_liquidity is
\* immediately followed by the same provider's successful remove_liquidity
\* of exactly the shares just minted, the withdrawal pays out no more
\* native amount than was deposited and no more token than was accepted.
RoundTripBound == last.undone # <<>> => transfers[1].amount <= last.undone[1] /\ transfers[2].amount <= last.undone[2]

\* The round-trip bound where the build checks native overflow.
RoundTripBoundChecked == overflow_checks => RoundTripBound

\* C7 (monotonic fee bound): a price get_input_price returns for positive
\* reserves is at most floor(amount * output_reserve / input_reserve), and
\* under any higher fee the price of the same query is no higher.
InputPriceBound ==
    query.op = "get_input_price" /\ query.err = "OK" =>
        /\ query.ret <= (query.amount * query.output_reserve) \div query.input_reserve
        /\ \A f \in PriceFees : f >= fee =>
            LET p == get_input_price(f, query.amount, query.input_reserve, query.output_reserve)
            IN  p.err = "OK" /\ p.ret <= query.ret

\* The fee bound where the build checks native overflow.
InputPriceBoundChecked == overflow_checks => InputPriceBound

\* The outcome o is that of a withdrawal of shares_amount by account_id
\* as C8 describes it: both payouts are the proportional ones, the total
\* supply and the reserves decrease by exactly the shares and the payouts,
\* and only the ledger balance of account_id changes, by shares_amount.
Withdrawn(account_id, shares_amount, o) ==
    /\ Len(o.transfers) = 2
    /\ o.transfers[1].amount = (shares_amount * near_amount) \div shares_total_supply
    /\ o.transfers[2].amount = (shares_amount * lp_token_amount) \div shares_total_supply
    /\ o.total = shares_total_supply - shares_amount
    /\ o.near = near_amount - o.transfers[1].amount
    /\ o.token = lp_token_amount - o.transfers[2].amount
    /\ BalanceOf(o.shares, account_id) = BalanceOf(shares, account_id) - shares_amount
    /\ \A other \in Providers \ {account_id} : o.shares[other] = shares[other]

\* C8 (withdraw effect), the successful call: in every reachable state a
\* remove_liquidity that succeeds has the effect C8 describes.
WithdrawEffect ==
    \A account_id \in Providers, shares_amount \in Balance, mins \in Minimums :
        LET o == remove_liquidity(account_id, shares_amount, mins[1], mins[2])
        IN  o.err = "OK" => Withdrawn(account_id, shares_amount, o)

\* The withdraw effect where the build checks native overflow.
WithdrawEffectChecked == overflow_checks => WithdrawEffect

\* C8, the failing call as stated: a caller whose balance is below the
\* share amount fails with ERR_NOT_ENOUGH_SHARES.
ShortBalanceNamed ==
    \A account_id \in Providers, shares_amount \in Balance, mins \in Minimums :
        LET o == remove_liquidity(account_id, shares_amount, mins[1], mins[2])
        IN  BalanceOf(shares, account_id) < shares_amount => o.err = "ERR_NOT_ENOUGH_SHARES"

\* C8, the failing call as the code has it: a caller whose balance is
\* below the share amount never succeeds.
ShortBalanceFails ==
    \A account_id \in Providers, shares_amount \in Balance, mins \in Minimums :
        LET o == remove_liquidity(account_id, shares_amount, mins[1], mins[2])
        IN  BalanceOf(shares, account_id) < shares_amount => o.err # "OK" /\ Untouched(o)

\* C9 (withdraw-all empties the pool): in every reachable state a
\* successful remove_liquidity of a share amount equal to
\* shares_total_supply leaves both reserves and the total supply at 0
\* and the Share Ledger empty.
WithdrawAllEmpties ==
    shares_total_supply > 0 =>
        \A account_id \in Providers, mins \in Minimums :
            LET o == remove_liquidity(account_id, shares_total_supply, mins[1], mins[2])
            IN  o.err = "OK" => o.near = 0 /\ o.token = 0 /\ o.total = 0 /\ Entries(o.shares) = {}

\* The reserves and the total supply after a withdrawal of every share.
WithdrawAllEmptiesReserves ==
    shares_total_supply > 0 =>
        \A account_id \in Providers, mins \in Minimums :
            LET o == remove_liquidity(account_id, shares_total_supply, mins[1], mins[2])
            IN  o.err = "OK" => o.near = 0 /\ o.token = 0 /\ o.total = 0

\* C10 (first deposit sets the rate): in every reachable state with
\* shares_total_supply = 0, add_liquidity with a deposit n > 0 and a
\* declared token amount t succeeds, sets shares_total_supply and
\* near_amount to n and lp_token_amount to t, leaves the provider with a
\* share balance of n and returns t.
FirstDepositSetsRate ==
    shares_total_supply = 0 =>
        \A sender_id \in Providers, deposit \in 1..MaxBalance, token_amount \in Balance :
            LET o == add_liquidity(sender_id, deposit, token_amount)
            IN  /\ o.err = "OK"
                /\ o.total = deposit /\ o.near = deposit /\ o.token = token_amount
                /\ BalanceOf(o.shares, sender_id) = deposit
                /\ o.ret = token_amount

\* The first deposit where the build checks native overflow.
FirstDepositSetsRateChecked == overflow_checks => FirstDepositSetsRate

\* The outcome o is that of a deposit of deposit by sender_id into a pool
\* with shares as C11 describes it: the exact expected token amount is
\* accepted and returned, the exact minted shares are credited, and the
\* total supply and the reserves grow by them and by the deposit.
Deposited(sender_id, deposit, o) ==
    LET expected == (deposit * lp_token_amount) \div near_amount
        minted == (deposit * shares_total_supply) \div near_amount
    IN  /\ BalanceOf(o.shares, sender_id) = BalanceOf(shares, sender_id) + minted
        /\ \A other \in Providers \ {sender_id} : o.shares[other] = shares[other]
        /\ o.total = shares_total_supply + minted
        /\ o.near = near_amount + deposit
        /\ o.token = lp_token_amount + expected
        /\ o.ret = expected

\* One deposit as C11 describes it.
Proportional(sender_id, deposit, token_amount) ==
    LET expected == (deposit * lp_token_amount) \div near_amount
        o == add_liquidity(sender_id, deposit, token_amount)
    IN  /\ o.err = "OK" <=> token_amount >= expected
        /\ token_amount < expected => o.err = "ERR_NOT_ENOUGH_TOKEN"
        /\ o.err = "OK" => Deposited(sender_id, deposit, o)

\* C11 (proportional deposit): on a funded pool add_liquidity with a
\* deposit n > 0 succeeds exactly when the declared token amount is at
\* least floor(n * lp_token_amount / near_amount) and fails with
\* ERR_NOT_ENOUGH_TOKEN otherwise; on success it credits
\* floor(n * shares_total_supply / near_amount) shares, adds them to the
\* total supply, adds n and the expected amount to the reserves and
\* returns the expected amount.
ProportionalDeposit ==
    Funded => \A sender_id \in Providers, deposit \in 1..MaxBalance, token_amount \in Balance :
        Proportional(sender_id, deposit, token_amount)

\* The deposits of a funded pool none of whose products or sums leaves
\* the native width.
WithinWidth(sender_id) ==
    {deposit \in 1..MaxBalance :
        /\ ~Overflows(deposit * lp_token_amount)
        /\ ~Overflows(deposit * shares_total_supply)
        /\ ~Overflows(BalanceOf(shares, sender_id) + (deposit * shares_total_supply) \div near_amount)
        /\ ~Overflows(shares_total_supply + (deposit * shares_total_supply) \div near_amount)
        /\ ~Overflows(near_amount + deposit)
        /\ ~Overflows(lp_token_amount + (deposit * lp_token_amount) \div near_amount)}

\* The proportional deposit where nothing leaves the native width.
ProportionalDepositWithinWidth ==
    Funded => \A sender_id \in Providers : \A deposit \in WithinWidth(sender_id), token_amount \in Balance :
        Proportional(sender_id, deposit, token_amount)

\* Every swap that succeeds in this state has the effect C12 describes:
\* the input reserve grows by exactly the amount paid, the output reserve
\* shrinks by exactly the amount get_input_price gives, which is the
\* amount returned or transferred, and the total supply and the ledger
\* are as before.
SwapEffect ==
    /\ \A account_id \in Providers, payed_amount \in Balance, min_amount \in Balance :
        LET price == get_input_price(fee, payed_amount, near_amount, lp_token_amount)
            o == swap_near_to_token(account_id, payed_amount, min_amount)
        IN  o.err = "OK" =>
                /\ price.err = "OK" /\ o.ret = price.ret
                /\ o.near = near_amount + payed_amount
                /\ o.token = lp_token_amount - price.ret
                /\ o.total = shares_total_supply /\ o.shares = shares
    /\ \A sender_id \in Providers, token_amount \in Balance, min_near_amount \in Balance :
        LET price == get_input_price(fee, token_amount, lp_token_amount, near_amount)
            o == swap_token_to_near(sender_id, token_amount, min_near_amount)
        IN  o.err = "OK" =>
                /\ price.err = "OK" /\ o.transfers[1].amount = price.ret
                /\ o.token = lp_token_amount + token_amount
                /\ o.near = near_amount - price.ret
                /\ o.total = shares_total_supply /\ o.shares = shares

\* A step that is a successful swap leaves the total supply, the ledger,
\* the fee and the token identity as they were.
SwapFrame ==
    last'.op \in {"swap_near_to_token", "swap_token_to_near"} /\ last'.err = "OK" =>
        /\ shares_total_supply' = shares_total_supply
        /\ shares' = shares
        /\ fee' = fee
        /\ token_account_id' = token_account_id

\* C12 (swap effect and frame): a successful swap_near_to_token adds
\* exactly the amount paid to near_amount and takes exactly the returned
\* get_input_price amount from lp_token_amount, a successful
\* swap_token_to_near adds exactly token_in to lp_token_amount and takes
\* exactly the get_input_price amount from near_amount, and both leave
\* the total supply, every ledger entry, the fee and the token identity
\* unchanged.
SwapEffectAndFrame == []SwapEffect /\ [][SwapFrame]_vars

\* The swap effect where the build checks native overflow, and the frame
\* in every build.
SwapEffectChecked == [](overflow_checks => SwapEffect) /\ [][SwapFrame]_vars

\* C13 (get_output_price precondition): a get_output_price call with
\* output_amount >= output_reserve or output_amount = 0 is rejected with
\* ERR_EMPTY_RESERVE, and no call takes output_reserve - output_amount
\* below zero or divides by a zero denominator.
OutputPricePrecondition ==
    query.op = "get_output_price" =>
        /\ query.amount >= query.output_reserve \/ query.amount = 0 => query.err = "ERR_EMPTY_RESERVE"
        /\ query.err \notin {"PANIC_DIV_ZERO", "PANIC_OVERFLOW"}

\* What the code gives: with positive reserves and
\* 0 < output_amount < output_reserve the subtraction and the division
\* are defined.
OutputPriceWithinReserve ==
    query.op = "get_output_price" /\ query.input_reserve > 0 /\ 0 < query.amount /\ query.amount < query.output_reserve =>
        query.err \in {"OK", "PANIC_CAST"}

\* C14 (get_output_price never lets the caller underpay): for positive
\* reserves and 0 < output_amount < output_reserve, paying the input that
\* get_output_price returns buys, by get_input_price at the same
\* reserves, at least output_amount.
OutputPriceNeverUnderpays ==
    query.op = "get_output_price" /\ query.err = "OK" /\ query.input_reserve > 0 /\ 0 < query.amount /\ query.amount < query.output_reserve =>
        LET p == get_input_price(fee, query.ret, query.input_reserve, query.output_reserve)
        IN  p.err = "OK" => p.ret >= query.amount

\* What the code gives where the build checks native overflow: the input
\* get_output_price returns never buys more than output_amount.
OutputPriceNeverOverpays ==
    overflow_checks /\ query.op = "get_output_price" /\ query.err = "OK" /\ query.input_reserve > 0 /\ 0 < query.amount /\ query.amount < query.output_reserve =>
        LET p == get_input_price(fee, query.ret, query.input_reserve, query.output_reserve)
        IN  p.err = "OK" => p.ret <= query.amount

\* The multiply-before-divide of add_liquidity gives the exact floor, and
\* does not trap, whenever the exact floor is a balance.
MintingExact ==
    Funded => \A deposit \in 1..MaxBalance :
        /\ ~Overflows((deposit * lp_token_amount) \div near_amount) =>
            ~Traps(deposit * lp_token_amount) /\ expected_token_amount(deposit) = (deposit * lp_token_amount) \div near_amount
        /\ ~Overflows((deposit * shares_total_supply) \div near_amount) =>
            ~Traps(deposit * shares_total_supply) /\ liquidity_minted(deposit) = (deposit * shares_total_supply) \div near_amount

\* get_input_price gives the exact floor for every amount and all positive
\* reserves (the floor is below output_reserve, so it is a balance).
InputPriceExact ==
    \A input_amount \in Balance, input_reserve \in 1..MaxBalance, output_reserve \in 1..MaxBalance :
        LET p == get_input_price(fee, input_amount, input_reserve, output_reserve)
        IN  p.err = "OK" /\ p.ret = (input_amount * (FEE_DIVISOR - fee) * output_reserve) \div ((input_reserve + input_amount) * FEE_DIVISOR)

\* get_output_price gives the exact floor for positive reserves and
\* 0 < output_amount < output_reserve whenever the floor is a balance.
OutputPriceExact ==
    \A input_reserve \in 1..MaxBalance, output_reserve \in 1..MaxBalance : \A output_amount \in 1..(output_reserve - 1) :
        LET exact == (input_reserve * output_amount * FEE_DIVISOR) \div ((output_reserve - output_amount) * (FEE_DIVISOR - fee))
            p == get_output_price(fee, output_amount, input_reserve, output_reserve)
        IN  ~Overflows(exact) => p.err = "OK" /\ p.ret = exact

\* remove_liquidity pays the exact floors whenever both are balances.
PayoutsExact ==
    shares_total_supply > 0 => \A account_id \in Providers, shares_amount \in 1..MaxBalance :
        LET near == (shares_amount * near_amount) \div shares_total_supply
            token == (shares_amount * lp_token_amount) \div shares_total_supply
            o == remove_liquidity(account_id, shares_amount, 0, 0)
        IN  ~Overflows(near) /\ ~Overflows(token) =>
                /\ o.err # "PANIC_CAST"
                /\ o.err = "OK" => o.transfers[1].amount = near /\ o.transfers[2].amount = token

\* C15 (no native-width overflow): the multiply-before-divide of
\* add_liquidity (expected token amount, minted shares), of
\* remove_liquidity, of get_input_price and of get_output_price, and the
\* sum input_reserve + input_amount of get_input_price, give the exact
\* floor of the unbounded formula whenever that floor is a balance, and
\* neither wrap nor trap on an intermediate value beyond the width.
NoNativeOverflow == MintingExact /\ InputPriceExact /\ OutputPriceExact /\ PayoutsExact

\* What the code gives: the formulas it evaluates in U256 are exact.
WideFormulasExact == OutputPriceExact /\ PayoutsExact

\* A step that is a successful remove_liquidity or swap issues its
\* requests (two for a withdrawal, one for a swap) with the ledger, the
\* total supply and the reserves already as the call leaves them, and
\* addresses each to the account the call acts for.
IssuedAfterCommit ==
    last'.err = "OK" /\ last'.op \in {"remove_liquidity", "swap_near_to_token", "swap_token_to_near"} =>
        /\ Len(transfers') = IF last'.op = "remove_liquidity" THEN 2 ELSE 1
        /\ \A i \in 1..Len(transfers') :
            /\ transfers'[i].at = <<shares', shares_total_supply', near_amount', lp_token_amount'>>
            /\ transfers'[i].to = last'.who

\* Each request of such a step carries exactly the amount its reserve
\* has decreased by.
CarriesDecrement ==
    last'.err = "OK" /\ last'.op \in {"remove_liquidity", "swap_near_to_token", "swap_token_to_near"} =>
        \A i \in 1..Len(transfers') :
            /\ transfers'[i].kind = "near" => transfers'[i].amount = near_amount - near_amount'
            /\ transfers'[i].kind = "token" => transfers'[i].amount = lp_token_amount - lp_token_amount'

\* C16 (transfers follow commit with finalized amounts): in every
\* successful remove_liquidity, swap_near_to_token and swap_token_to_near
\* each transfer request is issued after the total supply, the reserves
\* and the ledger have been updated, is addressed to the caller (the
\* named sender for swap_token_to_near) and carries exactly the amount by
\* which its reserve was decreased.
TransfersFollowCommit == [][IssuedAfterCommit /\ CarriesDecrement]_vars

\* What the code gives in every build: the order and the addressee.
TransfersIssuedAfterCommit == [][IssuedAfterCommit]_vars

\* The amounts where the build checks native overflow.
TransfersCarryDecrementChecked == [][overflow_checks => CarriesDecrement]_vars

\* C17 (token-notification capability check): in every reachable state
\* ft_on_transfer called by an account other than token_account_id fails
\* with ERR_WRONG_TOKEN and changes nothing, and called by
\* token_account_id with the memo "liquidity" it does what add_liquidity
\* does for the named sender with the attached deposit and the notified
\* amount as declared token amount, and returns what add_liquidity
\* returns.
CapabilityCheck ==
    \A predecessor \in Callers, sender_id \in Providers, amount \in Balance, msg \in Msgs, deposit \in Balance :
        LET o == ft_on_transfer(predecessor, sender_id, amount, msg, deposit)
        IN  /\ predecessor # token_account_id => o.err = "ERR_WRONG_TOKEN" /\ Untouched(o)
            /\ predecessor = token_account_id /\ msg = "liquidity" => o = add_liquidity(sender_id, deposit, amount)

\* C17 witness: a notification from the token contract with the memo
\* "liquidity" has deposited into a funded pool and minted shares.
NotifiedDeposit == last.op = "ft_on_transfer" /\ last.err = "OK" /\ last.minted # NoVal /\ last.minted > 0 /\ last.ret > 0 /\ Cardinality(Entries(shares)) = 2

\* remove_liquidity with these arguments passes its four checks (lines
\* 77-85) and reaches its subtractions.
PassesWithdrawChecks(account_id, shares_amount, min_near_amount, min_token_amount) ==
    /\ shares_amount > 0 /\ shares_total_supply > 0
    /\ ~Overflows(near_payout(shares_amount)) /\ ~Overflows(token_payout(shares_amount))
    /\ near_payout(shares_amount) >= min_near_amount /\ token_payout(shares_amount) >= min_token_amount
    /\ BalanceOf(shares, account_id) >= shares_amount

\* C18 (no unsigned underflow): in every reachable state, every
\* remove_liquidity that passes its checks subtracts no more than the
\* balance, the total supply and the two reserves hold, and every swap
\* whose price is computed and reaches its minimum subtracts no more than
\* the output reserve holds.
NoUnderflow ==
    /\ \A account_id \in Providers, shares_amount \in Balance, mins \in Minimums :
        PassesWithdrawChecks(account_id, shares_amount, mins[1], mins[2]) =>
            /\ shares_amount <= BalanceOf(shares, account_id)
            /\ shares_amount <= shares_total_supply
            /\ near_payout(shares_amount) <= near_amount
            /\ token_payout(shares_amount) <= lp_token_amount
    /\ \A payed_amount \in Balance, min_amount \in Balance :
        LET price == get_input_price(fee, payed_amount, near_amount, lp_token_amount)
        IN  price.err = "OK" /\ price.ret >= min_amount => price.ret <= lp_token_amount
    /\ \A token_amount \in Balance, min_near_amount \in Balance :
        LET price == get_input_price(fee, token_amount, lp_token_amount, near_amount)
        IN  price.err = "OK" /\ price.ret >= min_near_amount => price.ret <= near_amount

\* No underflow where the build checks native overflow.
NoUnderflowChecked == overflow_checks => NoUnderflow

\* C19 (constant product never decreases across a swap): on a funded
\* pool every successful swap leaves near_amount * lp_token_amount at
\* least what it was, pays out strictly less than the output reserve and
\* leaves both reserves strictly positive.
ProductNeverDecreases ==
    Funded =>
        /\ \A account_id \in Providers, payed_amount \in Balance, min_amount \in Balance :
            LET o == swap_near_to_token(account_id, payed_amount, min_amount)
            IN  o.err = "OK" =>
                    /\ o.near * o.token >= near_amount * lp_token_amount
                    /\ o.ret < lp_token_amount
                    /\ o.near > 0 /\ o.token > 0
        /\ \A sender_id \in Providers, token_amount \in Balance, min_near_amount \in Balance :
            LET o == swap_token_to_near(sender_id, token_amount, min_near_amount)
            IN  o.err = "OK" =>
                    /\ o.near * o.token >= near_amount * lp_token_amount
                    /\ o.transfers[1].amount < near_amount
                    /\ o.near > 0 /\ o.token > 0

\* The constant product where the build checks native overflow.
ProductNeverDecreasesChecked == overflow_checks => ProductNeverDecreases

\* The same for the price alone, under every fee of PriceFees, where the
\* build checks native overflow: the reserves after paying input_amount
\* and taking the price multiply to at least what they did, and the price
\* is below the output reserve.
PriceKeepsProductChecked ==
    overflow_checks /\ query.op = "get_input_price" /\ query.err = "OK" =>
        /\ (query.input_reserve + query.amount) * (query.output_reserve - query.ret) >= query.input_reserve * query.output_reserve
        /\ query.ret < query.output_reserve

\* Every deposit that succeeds in this state leaves at least as much
\* near_amount behind each share as before.
NativeBackingKept ==
    \A sender_id \in Providers, deposit \in Balance, token_amount \in Balance :
        LET o == add_liquidity(sender_id, deposit, token_amount)
        IN  o.err = "OK" => o.near * shares_total_supply >= near_amount * o.total

\* Every deposit that succeeds in this state leaves at least as much
\* lp_token_amount behind each share as before.
TokenBackingKept ==
    \A sender_id \in Providers, deposit \in Balance, token_amount \in Balance :
        LET o == add_liquidity(sender_id, deposit, token_amount)
        IN  o.err = "OK" => o.token * shares_total_supply >= lp_token_amount * o.total

\* C20 (deposits never dilute existing shares): on a funded pool every
\* successful add_liquidity leaves the reserves behind each share no
\* smaller on either side: near_amount' * shares_total_supply >=
\* near_amount * shares_total_supply' and lp_token_amount' *
\* shares_total_supply >= lp_token_amount * shares_total_supply'.
DepositsNeverDilute == Funded => NativeBackingKept /\ TokenBackingKept

\* What the code gives where the build checks native overflow: the
\* native side.
NativeBackingKeptChecked == overflow_checks /\ Funded => NativeBackingKept

============================================================================
